---- MODULE Spec2Model ----
(***************************************************************************)
(* A model of the solar_weather_impact project: the synthetic training     *)
(* dataset generator (src/train_model.py), the synthetic weather generator *)
(* and the SQLite record store (src/data_ingestion.py).                    *)
(*                                                                         *)
(* Numbers.  The program computes in binary floating point; the model      *)
(* computes in fixed point with three decimals: a quantity x of the        *)
(* program is the integer 1000*x here (25.0 degrees is 25000, the factor   *)
(* 0.8 is 800, 100% is 100000).  A product x*f is (x*f) \div 1000.  The    *)
(* two sines of the program are tabulated to three decimals.               *)
(***************************************************************************)
EXTENDS Integers, Sequences, FiniteSets, TLC

(***************************************************************************)
(* Bounds of the model.                                                    *)
(***************************************************************************)
\* largest `days` argument of generate_synthetic_dataset that is explored
MaxDays == 2

(***************************************************************************)
(* Arithmetic helpers.                                                     *)
(***************************************************************************)
\* fixed-point unit: 1.0 of the program
Scale == 10 * 10 * 10

\* Python's built-in max and min of two numbers
Max(a, b) == IF a >= b THEN a ELSE b
Min(a, b) == IF a <= b THEN a ELSE b

\* Python's abs
Abs(a) == IF a < 0 THEN 0 - a ELSE a

\* the product of a quantity and a factor, both in fixed point
MulS(a, f) == (a * f) \div Scale

\* round(x, 2): to two decimals, a tie going to the even neighbour
Round2(x) ==
    LET q == x \div 10
        r == x % 10
    IN  IF r < 5 THEN q * 10
        ELSE IF r > 5 THEN (q + 1) * 10
        ELSE IF q % 2 = 0 THEN q * 10 ELSE (q + 1) * 10

\* math.sin((hour - 6) * math.pi / 12) for hour = 0..23, entry hour + 1
SinHourTable ==
    <<
       -1000, -966, -866, -707, -500, -259, 0, 259, 500, 707, 866, 966,
       1000, 966, 866, 707, 500, 259, 0, -259, -500, -707, -866, -966
    >>

\* math.sin((day_of_year - 80) * 2 * math.pi / 365) for day_of_year = 1..366
SinSeasonTable ==
    <<
       -978, -974, -970, -966, -961, -956, -951, -946, -940, -934, -928, -921, -914, -907, -900,
       -892, -884, -876, -867, -859, -850, -841, -831, -821, -812, -801, -791, -780, -769, -758,
       -747, -735, -724, -712, -699, -687, -674, -662, -649, -635, -622, -608, -595, -581, -567,
       -552, -538, -523, -509, -494, -479, -464, -448, -433, -417, -401, -386, -370, -354, -338,
       -321, -305, -288, -272, -255, -239, -222, -205, -188, -171, -154, -137, -120, -103, -86,
       -69, -52, -34, -17, 0, 17, 34, 52, 69, 86, 103, 120, 137, 154, 171,
       188, 205, 222, 239, 255, 272, 288, 305, 321, 338, 354, 370, 386, 401, 417,
       433, 448, 464, 479, 494, 509, 523, 538, 552, 567, 581, 595, 608, 622, 635,
       649, 662, 674, 687, 699, 712, 724, 735, 747, 758, 769, 780, 791, 801, 812,
       821, 831, 841, 850, 859, 867, 876, 884, 892, 900, 907, 914, 921, 928, 934,
       940, 946, 951, 956, 961, 966, 970, 974, 978, 981, 984, 987, 990, 992, 994,
       996, 997, 998, 999, 1000, 1000, 1000, 1000, 999, 998, 997, 995, 993, 991, 989,
       986, 983, 980, 976, 972, 968, 963, 959, 954, 948, 943, 937, 931, 924, 918,
       911, 903, 896, 888, 880, 872, 863, 854, 845, 836, 826, 817, 806, 796, 786,
       775, 764, 753, 741, 730, 718, 706, 693, 681, 668, 655, 642, 629, 615, 602,
       588, 574, 560, 545, 531, 516, 501, 486, 471, 456, 441, 425, 409, 394, 378,
       362, 346, 329, 313, 297, 280, 264, 247, 230, 214, 197, 180, 163, 146, 129,
       112, 95, 77, 60, 43, 26, 9, -9, -26, -43, -60, -77, -95, -112, -129,
       -146, -163, -180, -197, -214, -230, -247, -264, -280, -297, -313, -329, -346, -362, -378,
       -394, -409, -425, -441, -456, -471, -486, -501, -516, -531, -545, -560, -574, -588, -602,
       -615, -629, -642, -655, -668, -681, -693, -706, -718, -730, -741, -753, -764, -775, -786,
       -796, -806, -817, -826, -836, -845, -854, -863, -872, -880, -888, -896, -903, -911, -918,
       -924, -931, -937, -943, -948, -954, -959, -963, -968, -972, -976, -980, -983, -986, -989,
       -991, -993, -995, -997, -998, -999, -1000, -1000, -1000, -1000, -999, -998, -997, -996, -994,
       -992, -990, -987, -984, -981, -978
    >>

(***************************************************************************)
(* generate_synthetic_dataset (src/train_model.py): the formulas of one    *)
(* hourly row.                                                             *)
(***************************************************************************)
\* the inner loop runs `for hour in range(24)`
HoursPerDay == 24

SinHour(h) == SinHourTable[h + 1]
SinSeason(doy) == SinSeasonTable[doy]

\* Dates are day numbers, 0 being 1 January 2024 (a leap year); the dates
\* used lie in 2023..2025.  YDay is timetuple().tm_yday.
YDay(n) ==
    IF n < 0 THEN n + 366
    ELSE IF n < 366 THEN n + 1
    ELSE n - 365

\* the dates datetime.now() is read at: 1 Jan 2024, 19 Jun 2024 (seasonal
\* peak), 18 Dec 2024 (seasonal trough), 1 Jan 2025 (after a leap year)
NowDates == {0, 170, 352, 366}

\* the values explored for each random.uniform draw, end points included
TempNoise == {-2000, 0, 2000}
CloudBase == {10000, 70000}
HumidityNoise == {-10000, 0, 10000}
EfficiencyNoise == {-2000, 0, 2000}

\* base_temp + seasonal_variation + daily_variation + random.uniform(-2, 2)
Temperature(doy, h, u) == 25000 + 5 * SinSeason(doy) + 8 * SinHour(h) + u

\* max(0, min(100, cloud_base - (temperature - 25) * 0.3))
CloudCover(t, base) == Max(0, Min(100000, base - MulS(t - 25000, 300)))

\* the humidity drawn around a fixed base, whatever the cloud cover
HumidityIgnoresCloud(c, u) == Max(30000, Min(95000, 55000 + u))

\* max(30, min(95, 40 + cloud_cover * 0.4 + random.uniform(-10, 10)))
Humidity(c, u) == Max(30000, Min(95000, 40000 + MulS(c, 400) + u))

\* the magnitude of the sine at every hour, the night not set to 0
HourEffectAllDay(h) == MulS(100000, Abs(SinHour(h)))

\* 1. hour of day: 0 at night, else 100.0 * sin((hour - 6) * pi / 12)
HourEffect(h) ==
    IF h < 6 \/ h > 18 THEN 0 ELSE MulS(100000, SinHour(h))

\* the cloud penalty added instead of subtracted
CloudFactorSignSlip(c) == Scale + MulS(c \div 100, 800)

\* 2. cloud cover: 1 - (cloud_cover / 100) * 0.8
CloudFactor(c) == Scale - MulS(c \div 100, 800)

\* 3. temperature: cold, hot and optimal range
TempFactor(t) ==
    IF t < 15000 THEN 700 + MulS(t - 15000, 20)
    ELSE IF t > 35000 THEN Scale - MulS(t - 35000, 20)
    ELSE 900 + MulS(25000 - Abs(t - 25000), 4)

\* 4. humidity: 1 - (humidity - 30) / 100 * 0.15
HumidityFactor(hm) == Scale - MulS((hm - 30000) \div 100, 150)

\* 5. season: 0.95 + 0.1 * sin((day_of_year - 80) * 2 * pi / 365)
SeasonalFactor(doy) == 950 + MulS(100, SinSeason(doy))

\* the clamp without its floor: min(100, solar_efficiency)
ClampEfficiencyNoFloor(x) == Min(100000, x)

\* max(0, min(100, solar_efficiency))
ClampEfficiency(x) == Max(0, Min(100000, x))

\* the clamp applied before the noise is added
SolarEfficiencyClampFirst(h, doy, t, c, hm, u) ==
    LET e1 == HourEffect(h)
        e2 == MulS(e1, CloudFactor(c))
        e3 == MulS(e2, TempFactor(t))
        e4 == MulS(e3, HumidityFactor(hm))
        e5 == MulS(e4, SeasonalFactor(doy))
    IN  ClampEfficiency(e5) + u

\* lines 65-104: the factors applied in order, the noise added, the clamp
SolarEfficiency(h, doy, t, c, hm, u) ==
    LET e1 == HourEffect(h)
        e2 == MulS(e1, CloudFactor(c))
        e3 == MulS(e2, TempFactor(t))
        e4 == MulS(e3, HumidityFactor(hm))
        e5 == MulS(e4, SeasonalFactor(doy))
    IN  ClampEfficiency(e5 + u)

\* the dictionary appended to `data`
MakeRow(t, c, hm, h, doy, e) ==
    [temperature |-> Round2(t), cloud_cover |-> Round2(c),
     humidity |-> Round2(hm), hour_of_day |-> h, day_of_year |-> doy,
     solar_output_efficiency |-> Round2(e)]

\* the outer loop running once too often: range(days + 1)
DayLoopOneMore(d, n) == d <= n

\* `for day in range(days)`: whether the body runs for index d
DayLoopContinues(d, n) == d < n

\* the inner loop stopping an hour early: range(23)
HourLoopOneLess(h) == h < HoursPerDay - 1

\* `for hour in range(24)`: whether the body runs for index h
HourLoopContinues(h) == h < HoursPerDay

(***************************************************************************)
(* State.                                                                  *)
(***************************************************************************)
VARIABLES
    \* generate_synthetic_dataset: the position in the function ("idle":
    \* not called, "loop": about to run the body for (day, hour), "exit":
    \* both loops over, "done": returned)
    pc,
    days,               \* the argument
    start_date,         \* datetime.now() - timedelta(days=days)
    day, hour,          \* the two loop indices
    temperature, cloud_cover, humidity, solar_efficiency,
                        \* the locals of the loop body, before rounding
    data,               \* the list: per row appended, its loop columns
    row,                \* the row appended last, all six columns
    df                  \* the value returned

genVars == <<pc, days, start_date, day, hour, temperature, cloud_cover,
             humidity, solar_efficiency, data, row, df>>

\* `data` holds of every row the columns the loops decide (hour_of_day,
\* day_of_year); the drawn columns are kept for the row appended last, in
\* `row`.  Every row is `row` in the state after its append, and the code
\* never reads a row again, so a property of `row` in every state is a
\* property of every row.
NoRow == [temperature |-> 0, cloud_cover |-> 0, humidity |-> 0,
          hour_of_day |-> -1, day_of_year |-> 0,
          solar_output_efficiency |-> 0]

GenInit ==
    /\ pc = "idle"
    /\ days = 0
    /\ start_date = 0
    /\ day = 0
    /\ hour = 0
    /\ temperature = 0
    /\ cloud_cover = 0
    /\ humidity = 0
    /\ solar_efficiency = 0
    /\ data = <<>>
    /\ row = NoRow
    /\ df = <<>>

\* the arguments explored: a negative one, zero, and 1..MaxDays
DaysArgs == -1 .. MaxDays

\* lines 38-43: the call, up to the first test of the outer loop
GenCall(d, now) ==
    /\ pc = "idle"
    /\ days' = d
    /\ start_date' = now - d
    /\ data' = <<>>
    /\ day' = 0
    /\ hour' = 0
    /\ pc' = IF DayLoopContinues(0, d) THEN "loop" ELSE "exit"
    /\ UNCHANGED <<temperature, cloud_cover, humidity, solar_efficiency,
                   row, df>>

\* lines 44-113: one run of the inner loop's body, with the four draws,
\* and the advance of the loops to the next (day, hour)
GenRow(u1, u2, u3, u4) ==
    /\ pc = "loop"
    /\ temperature' = Temperature(YDay(start_date + day), hour, u1)
    /\ cloud_cover' = CloudCover(temperature', u2)
    /\ humidity' = Humidity(cloud_cover', u3)
    /\ solar_efficiency' =
           SolarEfficiency(hour, YDay(start_date + day), temperature',
                           cloud_cover', humidity', u4)
    /\ row' = MakeRow(temperature', cloud_cover', humidity', hour,
                      YDay(start_date + day), solar_efficiency')
    /\ data' = Append(data, [hour_of_day |-> row'.hour_of_day,
                             day_of_year |-> row'.day_of_year])
    /\ IF HourLoopContinues(hour + 1)
       THEN /\ hour' = hour + 1
            /\ day' = day
            /\ pc' = "loop"
       ELSE /\ hour' = 0
            /\ day' = day + 1
            /\ pc' = IF DayLoopContinues(day + 1, days) THEN "loop" ELSE "exit"
    /\ UNCHANGED <<days, start_date, df>>

\* lines 115-121: the DataFrame is built from `data` and returned
GenReturn ==
    /\ pc = "exit"
    /\ df' = data
    /\ pc' = "done"
    /\ UNCHANGED <<days, start_date, day, hour, temperature, cloud_cover,
                   humidity, solar_efficiency, data, row>>

(***************************************************************************)
(* SyntheticWeatherGenerator.generate_weather_data (src/data_ingestion.py) *)
(***************************************************************************)
\* the cities used
Cities == {"Mumbai"}

\* the daily swing as wide as the base temperature
WeatherTemperatureWideSwing(h, u) == 25000 + 25 * SinHour(h) + u

\* base_temp + temp_variation * daily_cycle + random.uniform(-2, 2)
WeatherTemperature(h, u) == 25000 + 8 * SinHour(h) + u

\* max(0, min(100, cloud_base - (temperature - 25) * 0.5))
WeatherCloudCover(t, base) ==
    Max(0, Min(100000, base - MulS(t - 25000, 500)))

\* max(30, min(95, 40 + cloud_cover * 0.4 + random.uniform(-10, 10)))
WeatherHumidity(c, u) == Max(30000, Min(95000, 40000 + MulS(c, 400) + u))

\* the dictionary returned, for the clock's hour h and time ts and the
\* three draws
GenerateWeatherData(city, h, ts, u1, u2, u3) ==
    LET t == WeatherTemperature(h, u1)
        c == WeatherCloudCover(t, u2)
        hm == WeatherHumidity(c, u3)
    IN  [temperature |-> Round2(t), cloud_cover |-> Round2(c),
         humidity |-> Round2(hm), city |-> city, timestamp |-> ts]

(***************************************************************************)
(* WeatherDatabase and generate_and_store_weather (src/data_ingestion.py), *)
(* all calls on one db_path.                                               *)
(***************************************************************************)
\* the most rows the table is filled with
MaxRecords == 3
\* the largest `limit` argument of get_latest_records that is explored
MaxLimit == 4
\* the times of the clock
Times == {1, 2}

\* the fields insert_weather_data reads from its argument
RequiredFields == {"timestamp", "temperature", "cloud_cover", "humidity", "city"}

\* Time is counted in steps of 7 hours from midnight: datetime.now() at
\* time ts has this .hour, and ts stands for its isoformat() string.
HourAt(ts) == (ts * 7) % HoursPerDay

\* the dictionaries passed to insert_weather_data by a caller: complete
\* ones, and ones with a missing field
CompleteArgs ==
    { [timestamp |-> 2, temperature |-> 25000, cloud_cover |-> 50000,
       humidity |-> 60000, city |-> "TestCity"],
      [timestamp |-> 1, temperature |-> 29000, cloud_cover |-> 50000,
       humidity |-> 60000, city |-> "TestCity"] }
IncompleteArgs ==
    { [timestamp |-> 1, temperature |-> 25000, cloud_cover |-> 50000,
       humidity |-> 60000],
      [temperature |-> 29000] }
InsertArgs == CompleteArgs \cup IncompleteArgs

\* the draws explored for the weather generated inside
\* generate_and_store_weather: all three at their lowest, or highest
EtlDraws == { <<-2000, 10000, -10000>>, <<2000, 70000, 10000>> }

\* where a storage failure (an sqlite3 or OS error) strikes a call
InsertFailures == {"none", "connect", "commit"}
InitFailures == {"none", "connect", "execute"}
ReadFailures == {"none", "connect"}

VARIABLES
    dbFile,     \* the file at db_path: "absent", "empty" (no table), "table"
    store,      \* the rows of weather_data, in insertion order
    seq,        \* sqlite_sequence: the largest id AUTOINCREMENT has given
    db,         \* whether the caller holds a WeatherDatabase object
    clock,      \* the time, one of Times
    opName,     \* the last call: "none", "init", "insert", "latest", "etl"
    opStatus,   \* how it ended: "returned" or "raised"
    opOk,       \* insert: the boolean returned; etl: a dictionary returned
    opRows,     \* latest: the list returned; etl: <<the dictionary>>
    opLimit,    \* latest: the limit argument
    opArg,      \* insert: the argument
    opInitFault,\* init, etl: where constructing the WeatherDatabase failed
    opFault,    \* insert, latest, etl: where the query failed ("none": nowhere)
    prior,      \* the rows of weather_data before the last call
    etlStored,  \* the calls of generate_and_store_weather that returned a
                \* dictionary
    inserted    \* the other calls of insert_weather_data that returned True

dbVars == <<dbFile, store, seq, db, clock, opName, opStatus, opOk, opRows,
            opLimit, opArg, opInitFault, opFault, prior, etlStored, inserted>>

\* the argument recorded for a call that is not insert_weather_data
NoArg == [temperature |-> 0]

DbInit ==
    /\ dbFile = "absent"
    /\ store = <<>>
    /\ seq = 0
    /\ db = FALSE
    /\ clock = 1
    /\ opName = "none"
    /\ opStatus = "returned"
    /\ opOk = FALSE
    /\ opRows = <<>>
    /\ opLimit = 0
    /\ opArg = NoArg
    /\ opInitFault = "none"
    /\ opFault = "none"
    /\ prior = <<>>
    /\ etlStored = 0
    /\ inserted = 0

\* __init__ and _initialize_database: the file after the call failing at f
InitializedFile(file, f) ==
    IF f = "connect" THEN file
    ELSE IF f = "execute" THEN (IF file = "absent" THEN "empty" ELSE file)
    ELSE "table"

\* the table dropped and created anew on every construction
CreateTableAnew(rows) == <<>>

\* CREATE TABLE IF NOT EXISTS: the rows of the table afterwards
CreateTableIfNotExists(rows) == rows

\* the largest id among rows (0 for none)
RECURSIVE MaxId(_)
MaxId(rows) ==
    IF rows = <<>> THEN 0 ELSE Max(Head(rows).id, MaxId(Tail(rows)))

\* INTEGER PRIMARY KEY AUTOINCREMENT: the id given to the next row
NextId(rows, s) == Max(s, MaxId(rows)) + 1

\* the values bound to the columns in another order
InsertedRowSwapped(rows, s, wd) ==
    [id |-> NextId(rows, s), timestamp |-> wd.timestamp,
     temperature |-> wd.temperature, cloud_cover |-> wd.humidity,
     humidity |-> wd.cloud_cover, city |-> wd.city]

\* the row INSERT adds for the dictionary wd
InsertedRow(rows, s, wd) ==
    [id |-> NextId(rows, s), timestamp |-> wd.timestamp,
     temperature |-> wd.temperature, cloud_cover |-> wd.cloud_cover,
     humidity |-> wd.humidity, city |-> wd.city]

\* whether insert_weather_data reaches `return True` for wd, failing at f
InsertSucceeds(wd, f) == f = "none" /\ RequiredFields \subseteq DOMAIN wd

\* the row kept although commit() failed
InsertedStoreNoRollback(rows, s, wd, f) ==
    IF f \in {"none", "commit"} /\ RequiredFields \subseteq DOMAIN wd
    THEN Append(rows, InsertedRow(rows, s, wd))
    ELSE rows

\* the table after insert_weather_data(wd) failing at f: the row is there
\* once commit() has succeeded; an exception before that leaves the
\* transaction uncommitted and the connection is dropped
InsertedStore(rows, s, wd, f) ==
    IF InsertSucceeds(wd, f) THEN Append(rows, InsertedRow(rows, s, wd))
    ELSE rows

\* the rows with the row of the largest id removed
RECURSIVE WithoutId(_, _)
WithoutId(rows, i) ==
    IF rows = <<>> THEN <<>>
    ELSE IF Head(rows).id = i THEN Tail(rows)
    ELSE <<Head(rows)>> \o WithoutId(Tail(rows), i)

RowWithId(rows, i) == CHOOSE r \in {rows[k] : k \in 1..Len(rows)} : r.id = i

\* ORDER BY id ASC
OrderByIdAsc(rows) == rows

\* ORDER BY id DESC
RECURSIVE OrderByIdDesc(_)
OrderByIdDesc(rows) ==
    IF rows = <<>> THEN <<>>
    ELSE LET m == MaxId(rows)
         IN  <<RowWithId(rows, m)>> \o OrderByIdDesc(WithoutId(rows, m))

\* LIMIT n: the first n rows; a negative n is no limit
Limit(rows, n) ==
    IF n < 0 \/ n >= Len(rows) THEN rows ELSE SubSeq(rows, 1, n)

\* the query ordering by timestamp instead: the row of the largest
\* timestamp first (of two rows, and n = 1, the one that matters)
SelectLatestByTimestamp(rows, n) ==
    IF Len(rows) >= 2
          /\ rows[Len(rows)].timestamp < rows[Len(rows) - 1].timestamp
    THEN Limit(<<rows[Len(rows) - 1], rows[Len(rows)]>>
                   \o OrderByIdDesc(SubSeq(rows, 1, Len(rows) - 2)), n)
    ELSE Limit(OrderByIdDesc(rows), n)

\* SELECT ... FROM weather_data ORDER BY id DESC LIMIT ?
SelectLatest(rows, n) == Limit(OrderByIdDesc(rows), n)

\* WeatherDatabase(db_path), the call failing at f (it raises unless
\* f = "none")
DbConstruct(f) ==
    /\ dbFile' = InitializedFile(dbFile, f)
    /\ store' = CreateTableIfNotExists(store)
    /\ db' = (db \/ f = "none")
    /\ opName' = "init"
    /\ opStatus' = IF f = "none" THEN "returned" ELSE "raised"
    /\ opOk' = FALSE
    /\ opRows' = <<>>
    /\ opLimit' = 0
    /\ opArg' = NoArg
    /\ opInitFault' = f
    /\ opFault' = "none"
    /\ prior' = store
    /\ UNCHANGED <<seq, clock, etlStored, inserted>>

\* db.insert_weather_data(wd), the call failing at f
InsertWeatherData(wd, f) ==
    /\ db
    /\ Len(store) < MaxRecords
    /\ store' = InsertedStore(store, seq, wd, f)
    /\ seq' = IF InsertSucceeds(wd, f) THEN NextId(store, seq) ELSE seq
    /\ opName' = "insert"
    /\ opStatus' = "returned"
    /\ opOk' = InsertSucceeds(wd, f)
    /\ opRows' = <<>>
    /\ opLimit' = 0
    /\ opArg' = wd
    /\ opInitFault' = "none"
    /\ opFault' = f
    /\ prior' = store
    /\ inserted' = IF InsertSucceeds(wd, f) THEN inserted + 1 ELSE inserted
    /\ UNCHANGED <<dbFile, db, clock, etlStored>>

\* db.get_latest_records(limit=n), the call failing at f (it raises unless
\* f = "none": the function catches nothing)
GetLatestRecords(n, f) ==
    /\ db
    /\ opName' = "latest"
    /\ opStatus' = IF f = "none" THEN "returned" ELSE "raised"
    /\ opOk' = FALSE
    /\ opRows' = IF f = "none" THEN SelectLatest(store, n) ELSE <<>>
    /\ opLimit' = n
    /\ opArg' = NoArg
    /\ opInitFault' = "none"
    /\ opFault' = f
    /\ prior' = store
    /\ UNCHANGED <<dbFile, store, seq, db, clock, etlStored, inserted>>

\* generate_and_store_weather(city, db_path): the weather is generated and
\* validated, a WeatherDatabase is constructed (failing at fi) and the
\* weather inserted (failing at f)
GenerateAndStoreWeather(city, u, fi, f) ==
    LET wd == GenerateWeatherData(city, HourAt(clock), clock, u[1], u[2], u[3])
        valid == RequiredFields \subseteq DOMAIN wd
        constructs == valid /\ fi = "none"
        inserts == constructs /\ InsertSucceeds(wd, f)
    IN  /\ Len(store) < MaxRecords
        /\ dbFile' = IF valid THEN InitializedFile(dbFile, fi) ELSE dbFile
        /\ store' = IF constructs
                    THEN InsertedStore(CreateTableIfNotExists(store), seq, wd, f)
                    ELSE store
        /\ seq' = IF inserts THEN NextId(store, seq) ELSE seq
        /\ opName' = "etl"
        /\ opStatus' = IF valid /\ fi # "none" THEN "raised" ELSE "returned"
        /\ opOk' = inserts
        /\ opRows' = IF inserts THEN <<wd>> ELSE <<>>
        /\ opLimit' = 0
        /\ opArg' = NoArg
        /\ opInitFault' = IF valid THEN fi ELSE "none"
        /\ opFault' = IF constructs THEN f ELSE "none"
        /\ prior' = store
        /\ etlStored' = IF inserts THEN etlStored + 1 ELSE etlStored
        /\ UNCHANGED <<db, clock, inserted>>

\* app.py, load_latest_weather_data: the dictionary returned when the
\* database is missing, holds no row or cannot be read
Defaults == [temperature |-> 28000, cloud_cover |-> 30000, humidity |-> 65000]

\* where reading fails: at sqlite3.connect, or inside pd.read_sql_query
LoadFailures == {"none", "connect", "query"}

\* float(df[...].iloc[0]) of the three columns of the row read
LoadedValues(r) ==
    [temperature |-> r.temperature, cloud_cover |-> r.cloud_cover,
     humidity |-> r.humidity]

\* the function without its except clause
LoadLatestResultUnhandled(file, rows, f) ==
    IF file = "absent" THEN [status |-> "returned", value |-> Defaults]
    ELSE IF f # "none" \/ file # "table"
    THEN [status |-> "raised", value |-> Defaults]
    ELSE IF Len(SelectLatest(rows, 1)) > 0
    THEN [status |-> "returned",
          value |-> LoadedValues(SelectLatest(rows, 1)[1])]
    ELSE [status |-> "returned", value |-> Defaults]

\* load_latest_weather_data() on the file and rows given, reading failing
\* at f: a missing file gives the defaults at once; an exception inside
\* the try (a failure, or a file without the table) is swallowed and the
\* defaults returned; else the row of SELECT * ... ORDER BY id DESC
\* LIMIT 1 if there is one
LoadLatestResult(file, rows, f) ==
    IF file = "absent" THEN [status |-> "returned", value |-> Defaults]
    ELSE IF f # "none" \/ file # "table"
    THEN [status |-> "returned", value |-> Defaults]
    ELSE IF Len(SelectLatest(rows, 1)) > 0
    THEN [status |-> "returned",
          value |-> LoadedValues(SelectLatest(rows, 1)[1])]
    ELSE [status |-> "returned", value |-> Defaults]

\* the dashboard calls load_latest_weather_data(), reading failing at f
LoadLatestWeatherData(f) ==
    /\ opName' = "load"
    /\ opStatus' = LoadLatestResult(dbFile, store, f).status
    /\ opOk' = FALSE
    /\ opRows' = <<LoadLatestResult(dbFile, store, f).value>>
    /\ opLimit' = 1
    /\ opArg' = NoArg
    /\ opInitFault' = "none"
    /\ opFault' = IF dbFile = "absent" THEN "none" ELSE f
    /\ prior' = store
    /\ UNCHANGED <<dbFile, store, seq, db, clock, etlStored, inserted>>

\* time passes
Tick ==
    /\ clock \in Times
    /\ clock + 1 \in Times
    /\ clock' = clock + 1
    /\ UNCHANGED <<dbFile, store, seq, db, opName, opStatus, opOk, opRows,
                   opLimit, opArg, opInitFault, opFault, prior, etlStored,
                   inserted>>

(***************************************************************************)
(* The module-level generator of `random`, seeded by random.seed, and     *)
(* generate_synthetic_dataset run on it.  The generator's state is one of  *)
(* 2^12 values; a draw advances it and scales it into the asked range.     *)
(***************************************************************************)
\* the seeds random.seed is called with are 0..MaxSeed
MaxSeed == 5
\* the most seeded calls of generate_synthetic_dataset in one run
MaxRuns == 2

RngModulus == 2 ^ 12

\* random.seed(s): the state the generator is put in
SeedState(s) == (977 * s + 1) % RngModulus

\* the state after one draw
RandomNext(x) == (1229 * x + 1) % RngModulus

\* random.uniform(a, b) drawn in state x: a + (b - a) * random()
Uniform(a, b, x) == a + ((b - a) * x) \div RngModulus

VARIABLES
    rng,        \* the state of the module-level generator of `random`
    seeded,     \* the seed, from random.seed(seed) until the seeded call
                \* of generate_synthetic_dataset has returned; else -1
    today,      \* the date datetime.now() gives
    out,        \* the rows, in full, the seeded call has appended so far
    runs        \* per seeded call that returned: its seed and its rows

seedVars == <<rng, seeded, today, out, runs>>

SeedInit ==
    /\ rng = 0
    /\ seeded = -1
    /\ today = 170
    /\ out = <<>>
    /\ runs = <<>>

(***************************************************************************)
(* A SyntheticWeatherGenerator object and its generate_weather_data         *)
(* (src/data_ingestion.py), called at any time of the day.                 *)
(***************************************************************************)
\* the cities a generator is constructed with
GeneratorCities == {"Mumbai", "TestCity"}

\* the times of the calls: every hour of a day is the hour of one of them
WeatherTimes == 0 .. 23

\* the draws explored: the ends and the middle of each of the three ranges
WeatherDraws ==
    {-2000, 0, 2000} \X {10000, 40000, 70000} \X {-10000, 0, 10000}

VARIABLES
    generator,  \* self.city of the generator constructed last ("": none)
    weather     \* the dictionary generate_weather_data returned last

weatherVars == <<generator, weather>>

\* no dictionary returned yet
NoWeather == [timestamp |-> -1]

WeatherInit ==
    /\ generator = ""
    /\ weather = NoWeather

\* SyntheticWeatherGenerator(city=city)
GeneratorConstruct(city) ==
    /\ generator' = city
    /\ weather' = NoWeather

\* generator.generate_weather_data() at time ts with the draws u
GeneratorGenerate(ts, u) ==
    /\ generator # ""
    /\ weather' = GenerateWeatherData(generator, HourAt(ts), ts,
                                      u[1], u[2], u[3])
    /\ UNCHANGED generator

(***************************************************************************)
(* The training pipeline (src/train_model.py): train_model, save_model and *)
(* main.  A dataset is its row count, its rows being 1..n_samples; a model *)
(* is the number of the train_model call that made it.                     *)
(***************************************************************************)
\* the most calls of train_model in one behaviour
MaxTrainings == 2
\* train_model is called on datasets of up to this many days
MaxSplitDays == 2

\* main: generate_synthetic_dataset(days=365)
MainDays == 365

\* the row counts of the datasets train_model is called with outside main:
\* a few rows, and the days * 24 rows of generated datasets
RowCounts == {0, 1, 2, 5} \cup {d * HoursPerDay : d \in 1 .. MaxSplitDays}

\* n_test = floor(0.2 * n_samples)
TestSizeFloor(n) == n \div 5

\* train_test_split(..., test_size=0.2): n_test = ceil(0.2 * n_samples)
\* (0.2 * n in double precision has the ceiling of n / 5 for every
\* n < 20000)
TestSize(n) == (n + 4) \div 5

\* train_test_split(..., random_state=42)
SplitRandomState == 42

\* the step of the shuffle of n rows: an odd prime that does not divide n
Stride(n) ==
    IF n % 7 # 0 THEN 7 ELSE IF n % 11 # 0 THEN 11
    ELSE IF n % 13 # 0 THEN 13 ELSE 17

\* shuffle=True: the permutation of the rows 1..n a generator seeded with
\* `seed` gives; the same n and seed give the same permutation
Permutation(n, seed) == [i \in 1 .. n |-> ((i * Stride(n) + seed) % n) + 1]

\* whether train_test_split raises: no row (KeyError on the columns of an
\* empty DataFrame), or one row (the train set would be empty)
SplitRaises(n) == n = 0 \/ n - TestSize(n) = 0

\* the test rows: the first n_test of the permutation
TestRows(n, seed) == SubSeq(Permutation(n, seed), 1, TestSize(n))

\* the training rows: the n - n_test that follow
TrainRows(n, seed) == SubSeq(Permutation(n, seed), TestSize(n) + 1, n)

\* the metrics train_model may compute: those of a good model, and those
\* of a degenerate one (R2 below 0)
Metrics ==
    { [rmse |-> 1500, mae |-> 1000, r2 |-> 990],
      [rmse |-> 40000, mae |-> 35000, r2 |-> -500] }

\* no metrics returned
NoMetrics == [rmse |-> 0, mae |-> 0, r2 |-> 0]

\* how model.fit ends
FitFailures == {"none", "fit"}

\* a second attempt after a failed fit
AfterFitFailureRetry(attempts) == IF attempts < 2 THEN "split" ELSE "raised"

\* model.fit raising inside train_model: nothing catches it
AfterFitFailure(attempts) == "raised"

\* the model saved only if R2 is not negative
MainSavesModelGated(m) == m.r2 >= 0

\* main, between train_model returning and save_model(model): whether
\* save_model is called, given the metrics
MainSavesModel(m) == TRUE

\* the directories save_model is called with: the default, and another
DefaultModelDir == "src/models"
ModelDirs == {DefaultModelDir, "backup/models"}

\* a file name carrying the timestamp
ModelPathStamped(model_dir, timestamp) ==
    [dir |-> model_dir,
     file |-> IF timestamp = 1 THEN "solar_prediction_model_1.pkl"
              ELSE "solar_prediction_model_2.pkl"]

\* model_path = f"{model_dir}/solar_prediction_model.pkl"; the timestamp
\* computed the line before is not used
ModelPath(model_dir, timestamp) ==
    [dir |-> model_dir, file |-> "solar_prediction_model.pkl"]

\* where save_model fails: at mkdir, or inside joblib.dump after the file
\* was opened for writing
SaveFailures == {"none", "mkdir", "dump"}

\* the content of a file whose writing broke off
Partial == 0

\* the files after `content` is written to `path`
Written(fs, path, content) ==
    {a \in fs : a.dir # path.dir \/ a.file # path.file}
        \cup {[dir |-> path.dir, file |-> path.file, model |-> content]}

\* the files after save_model(model, model_dir) at time ts, failing at f
SavedFiles(fs, mdl, model_dir, ts, f) ==
    IF f = "mkdir" THEN fs
    ELSE IF f = "dump" THEN Written(fs, ModelPath(model_dir, ts), Partial)
    ELSE Written(fs, ModelPath(model_dir, ts), mdl)

VARIABLES
    tpc,          \* where the pipeline is: "idle", "generated" (main has
                  \* its dataset), "split" and "fitted" (inside
                  \* train_model), "trained" (train_model has returned to
                  \* main), "saved" (save_model has), "raised"
    inMain,       \* whether main is running
    n_samples,    \* the rows of the dataset train_model was called with
    X_train,      \* train_model: the training rows
    X_test,       \* train_model: the test rows
    fits,         \* train_model: the calls of model.fit made
    trainings,    \* the calls of train_model made so far
    model,        \* the model the caller holds (0: none)
    metrics,      \* the metrics returned with it
    files,        \* the model files on disk: directory, name and content
    filesAtStart, \* the files when main began
    saveArg,      \* the model the last save_model call was given (0: none)
    saveDir,      \* the model_dir it was given
    lastSaved,    \* per directory: the model of the last save_model call
                  \* that got as far as writing (Partial: none did, or it
                  \* broke off)
    firstSplit    \* the split of the first train_model call

trainVars == <<tpc, inMain, n_samples, X_train, X_test, fits, trainings,
               model, metrics, files, filesAtStart, saveArg, saveDir,
               lastSaved, firstSplit>>

\* no split made yet
NoSplit == [n |-> -1, train |-> <<>>, test |-> <<>>]

TrainInit ==
    /\ tpc = "idle"
    /\ inMain = FALSE
    /\ n_samples = 0
    /\ X_train = <<>>
    /\ X_test = <<>>
    /\ fits = 0
    /\ trainings = 0
    /\ model = 0
    /\ metrics = NoMetrics
    /\ files = {}
    /\ filesAtStart = {}
    /\ saveArg = 0
    /\ saveDir = ""
    /\ lastSaved = [d \in ModelDirs |-> Partial]
    /\ firstSplit = NoSplit

\* main begins: df = generate_synthetic_dataset(days=365)
MainGenerate ==
    /\ tpc = "idle"
    /\ trainings < MaxTrainings
    /\ tpc' = "generated"
    /\ inMain' = TRUE
    /\ n_samples' = MainDays * HoursPerDay
    /\ filesAtStart' = files
    /\ model' = 0
    /\ metrics' = NoMetrics
    /\ UNCHANGED <<X_train, X_test, fits, trainings, files, saveArg, saveDir,
                   lastSaved, firstSplit>>

\* train_model(df) is entered with a dataset of n rows and splits it
TrainSplit(n) ==
    /\ tpc = IF inMain THEN "generated" ELSE "idle"
    /\ trainings < MaxTrainings
    /\ n_samples' = n
    /\ trainings' = trainings + 1
    /\ fits' = 0
    /\ tpc' = IF SplitRaises(n) THEN "raised" ELSE "split"
    /\ X_train' = IF SplitRaises(n) THEN <<>>
                  ELSE TrainRows(n, SplitRandomState)
    /\ X_test' = IF SplitRaises(n) THEN <<>>
                 ELSE TestRows(n, SplitRandomState)
    /\ firstSplit' = IF firstSplit = NoSplit /\ ~SplitRaises(n)
                     THEN [n |-> n, train |-> X_train', test |-> X_test']
                     ELSE firstSplit
    /\ UNCHANGED <<inMain, model, metrics, files, filesAtStart, saveArg,
                   saveDir, lastSaved>>

\* model.fit(X_train, y_train, ...), ending as f says
TrainFit(f) ==
    /\ tpc = "split"
    /\ fits' = fits + 1
    /\ tpc' = IF f = "none" THEN "fitted" ELSE AfterFitFailure(fits')
    /\ UNCHANGED <<inMain, n_samples, X_train, X_test, trainings, model,
                   metrics, files, filesAtStart, saveArg, saveDir, lastSaved,
                   firstSplit>>

\* the model is evaluated on the test rows and returned with metrics m
TrainReturn(m) ==
    /\ tpc = "fitted"
    /\ model' = trainings
    /\ metrics' = m
    /\ tpc' = IF inMain THEN "trained" ELSE "idle"
    /\ X_train' = <<>>
    /\ X_test' = <<>>
    /\ UNCHANGED <<inMain, n_samples, fits, trainings, files, filesAtStart,
                   saveArg, saveDir, lastSaved, firstSplit>>

\* save_model(mdl, model_dir) at time ts, failing at f
SaveModel(mdl, model_dir, ts, f) ==
    /\ files' = SavedFiles(files, mdl, model_dir, ts, f)
    /\ saveArg' = mdl
    /\ saveDir' = model_dir
    /\ lastSaved' = IF f = "mkdir" THEN lastSaved
                    ELSE [lastSaved EXCEPT ![model_dir] =
                             IF f = "none" THEN mdl ELSE Partial]

\* main: model_path = save_model(model)
MainSaveModel(ts, f) ==
    /\ tpc = "trained"
    /\ inMain
    /\ MainSavesModel(metrics)
    /\ SaveModel(model, DefaultModelDir, ts, f)
    /\ tpc' = IF f = "none" THEN "saved" ELSE "raised"
    /\ UNCHANGED <<inMain, n_samples, X_train, X_test, fits, trainings, model,
                   metrics, filesAtStart, firstSplit>>

\* main prints the path and the metrics, and returns
MainReturn ==
    /\ tpc = "saved"
    /\ tpc' = "idle"
    /\ inMain' = FALSE
    /\ model' = 0
    /\ metrics' = NoMetrics
    /\ UNCHANGED <<n_samples, X_train, X_test, fits, trainings, files,
                   filesAtStart, saveArg, saveDir, lastSaved, firstSplit>>

\* an exception has ended the program; it is started again
Restart ==
    /\ tpc = "raised"
    /\ tpc' = "idle"
    /\ inMain' = FALSE
    /\ model' = 0
    /\ metrics' = NoMetrics
    /\ X_train' = <<>>
    /\ X_test' = <<>>
    /\ UNCHANGED <<n_samples, fits, trainings, files, filesAtStart, saveArg,
                   saveDir, lastSaved, firstSplit>>

\* a caller other than main saves the model it holds
CallerSaveModel(model_dir, ts, f) ==
    /\ tpc = "idle"
    /\ model > 0
    /\ SaveModel(model, model_dir, ts, f)
    /\ tpc' = IF f = "none" THEN "idle" ELSE "raised"
    /\ UNCHANGED <<inMain, n_samples, X_train, X_test, fits, trainings, model,
                   metrics, filesAtStart, firstSplit>>

(***************************************************************************)
(* generate_weather_advice (src/utils.py) and the advice block of the      *)
(* dashboard (app/app.py, main).  An advice is the message chosen, the     *)
(* number formatted into it, and for a generated text its words.           *)
(***************************************************************************)
\* round(x) to a whole number, halves to even, as "{x:.0f}" prints it
Round0(x) ==
    LET q == x \div Scale
        r == x % Scale
    IN  IF 2 * r > Scale \/ (2 * r = Scale /\ q % 2 = 1) THEN q + 1 ELSE q

\* an advice with a fixed text
Message(kind) == [kind |-> kind, value |-> 0, text |-> <<>>]

\* an advice with a number formatted into its text
MessageWith(kind, x) == [kind |-> kind, value |-> Round0(x), text |-> <<>>]

\* str.strip(): white space removed at both ends
RECURSIVE Strip(_)
Strip(t) ==
    IF t = <<>> THEN t
    ELSE IF Head(t) = " " THEN Strip(Tail(t))
    ELSE IF t[Len(t)] = " " THEN Strip(SubSeq(t, 1, Len(t) - 1))
    ELSE t

\* advice[1:-1] if advice starts and ends with a double quote
StripQuotes(t) ==
    IF t # <<>> /\ Head(t) = "\"" /\ t[Len(t)] = "\""
    THEN SubSeq(t, 2, Len(t) - 1)
    ELSE t

\* the texts the API answers with
ResponseTexts ==
    { <<"run", "at", "2">>, <<"\"", "run", "at", "2", "\"">>,
      <<" ", "\"", "run", "\"", " ">>, <<"\"">> }

\* where the call fails: genai.configure, genai.GenerativeModel,
\* model.generate_content, response.text
ApiFailures == {"none", "configure", "model", "generate", "text"}

\* the local names bound when the exception of a failure at f reaches the
\* handler: those assigned on the lines before it
LocalsAt(f) ==
    IF f = "configure" THEN {"prediction_data", "api_key"}
    ELSE IF f = "model" THEN {"prediction_data", "api_key"}
    ELSE IF f = "generate"
    THEN {"prediction_data", "api_key", "model", "solar_efficiency",
          "temperature", "cloud_cover", "humidity", "hour_of_day",
          "confidence_lower", "confidence_upper", "system_prompt",
          "user_prompt"}
    ELSE {"prediction_data", "api_key", "model", "solar_efficiency",
          "temperature", "cloud_cover", "humidity", "hour_of_day",
          "confidence_lower", "confidence_upper", "system_prompt",
          "user_prompt", "response"}

\* prediction_data.get(key, default)
Get(d, key, default) == IF key \in DOMAIN d THEN d[key] ELSE default

\* the handler's choice: solar_efficiency > 70, > 40, else
FallbackAdvice(e) ==
    IF e > 70000 THEN Message("stellar")
    ELSE IF e > 40000 THEN Message("decent")
    ELSE Message("coffee break")

\* generate_weather_advice(pd, api_key), the API failing at f or answering
\* resp: how the call ends and the advice returned
GenerateWeatherAdvice(pd, f, resp) ==
    IF f = "none"
    THEN [status |-> "returned",
          advice |-> [kind |-> "generated", value |-> 0,
                      text |-> StripQuotes(Strip(resp))]]
    ELSE IF "solar_efficiency" \in LocalsAt(f)
    THEN [status |-> "returned",
          advice |-> FallbackAdvice(Get(pd, "solar_efficiency", 0))]
    ELSE [status |-> "raised", advice |-> Message("UnboundLocalError")]

\* the efficiencies of the dictionaries passed
Efficiencies == {0, 40000, 40500, 70000, 70500}

\* the dictionaries passed as prediction_data: with solar_efficiency, and
\* one without
PredictionData ==
    { [solar_efficiency |-> e, temperature |-> 30000, cloud_cover |-> 20000,
       humidity |-> 60000, hour_of_day |-> 12,
       confidence_lower |-> e - 5000, confidence_upper |-> e + 5000] :
      e \in Efficiencies }
    \cup { [temperature |-> 30000] }

\* st.secrets at the dashboard: it holds GEMINI_API_KEY, or does not, or
\* reading it raises (no secrets file)
Secrets == {"key", "no key", "error"}

\* the weather values active in the dashboard: the sliders of experiment
\* mode (10..45, 0..100, 0..100) and the live values
ActiveTemps == {10000, 28000, 40500, 45000}
ActiveClouds == {0, 40000, 40500, 70000, 71000, 100000}
ActiveHumidities == {0, 65000, 80000, 81000}

\* the efficiency_percent computed from the model's predictions
EfficiencyPercents == {0, 55000, 85000}

\* the names main has bound when it reaches the advice block, with their
\* values, for active weather t, c, hm and efficiency e
MainNamespace(t, c, hm, e) ==
    [active_temp |-> t, active_cloud |-> c, active_humidity |-> hm,
     efficiency_percent |-> e]

\* the names bound at module level: the imports and the functions
ModuleNames ==
    {"st", "pd", "np", "joblib", "sqlite3", "sys", "os", "datetime",
     "timedelta", "go", "Path", "pdk", "random", "time", "st_autorefresh",
     "generate_weather_advice", "categorize_efficiency", "get_time_emoji",
     "load_model", "load_latest_weather_data", "predict_for_hour",
     "generate_solar_curve_data", "create_solar_curve_chart",
     "get_appliance_status", "main"}

\* whether reading each of `names` in main finds a value: a name that is
\* neither bound in main nor at module level raises NameError
Bound(ns, names) == names \subseteq (DOMAIN ns \cup ModuleNames)

\* the else branch of the advice block (lines 796-805): the names
\* cloud_cover, temperature and humidity are read in this order, each when
\* its test is reached; NameError goes to the handler at line 806
RuleTable(ns) ==
    IF ~Bound(ns, {"cloud_cover"}) THEN Message("generic")
    ELSE IF ns["cloud_cover"] > 70000
    THEN MessageWith("delay", ns["cloud_cover"])
    ELSE IF ns["cloud_cover"] > 40000
    THEN MessageWith("partial clouds", ns["cloud_cover"])
    ELSE IF ~Bound(ns, {"temperature"}) THEN Message("generic")
    ELSE IF ns["temperature"] > 40000
    THEN MessageWith("high temperature", ns["temperature"])
    ELSE IF ~Bound(ns, {"humidity"}) THEN Message("generic")
    ELSE IF ns["humidity"] > 80000
    THEN MessageWith("high humidity", ns["humidity"])
    ELSE MessageWith("excellent conditions", ns["temperature"])

\* the branch with an API key (lines 784-793): prediction_data is built
\* from efficiency_percent, temperature, cloud_cover and humidity, and
\* generate_weather_advice called; any exception goes to the handler
KeyedAdvice(ns, f, resp) ==
    IF ~Bound(ns, {"efficiency_percent", "temperature", "cloud_cover",
                   "humidity"})
    THEN Message("generic")
    ELSE LET r == GenerateWeatherAdvice(
                     [solar_efficiency |-> ns["efficiency_percent"],
                      temperature |-> ns["temperature"],
                      cloud_cover |-> ns["cloud_cover"],
                      humidity |-> ns["humidity"], hour_of_day |-> 12,
                      confidence_lower |-> ns["efficiency_percent"] - 5000,
                      confidence_upper |-> ns["efficiency_percent"] + 5000],
                     f, resp)
         IN  IF r.status = "raised" THEN Message("generic") ELSE r.advice

\* the advice block of main (lines 782-807)
DashboardAdvice(ns, secrets, f, resp) ==
    IF secrets = "error" THEN Message("generic")
    ELSE IF secrets = "key" THEN KeyedAdvice(ns, f, resp)
    ELSE RuleTable(ns)

VARIABLES
    adviceOp,       \* the last operation: "none", "advice" (a call of
                    \* generate_weather_advice), "render" (the dashboard)
    prediction_data,\* advice: the dictionary passed
    apiFault,       \* where the API failed
    adviceStatus,   \* advice: "returned" or "raised"
    advice,         \* the advice returned, or shown by the dashboard
    st_secrets,     \* render: st.secrets
    namespace       \* render: the names bound in main, with their values

adviceVars == <<adviceOp, prediction_data, apiFault, adviceStatus, advice,
                st_secrets, namespace>>

\* the dictionary and the names recorded for the other operation
NoData == [hour_of_day |-> 0]

AdviceInit ==
    /\ adviceOp = "none"
    /\ prediction_data = NoData
    /\ apiFault = "none"
    /\ adviceStatus = "returned"
    /\ advice = Message("none")
    /\ st_secrets = "no key"
    /\ namespace = NoData

\* a call generate_weather_advice(pd, api_key)
AdviceCall(pd, f, resp) ==
    /\ adviceOp = "none"
    /\ adviceOp' = "advice"
    /\ prediction_data' = pd
    /\ apiFault' = f
    /\ adviceStatus' = GenerateWeatherAdvice(pd, f, resp).status
    /\ advice' = GenerateWeatherAdvice(pd, f, resp).advice
    /\ st_secrets' = "no key"
    /\ namespace' = NoData

\* the dashboard runs main down to the advice box
DashboardRender(ns, secrets, f, resp) ==
    /\ adviceOp = "none"
    /\ adviceOp' = "render"
    /\ prediction_data' = NoData
    /\ apiFault' = IF secrets = "key" THEN f ELSE "none"
    /\ adviceStatus' = "returned"
    /\ advice' = DashboardAdvice(ns, secrets, f, resp)
    /\ st_secrets' = secrets
    /\ namespace' = ns

\* the advice is with the caller (the dashboard has drawn the advice box):
\* neither function keeps anything for the next call
AdviceShown ==
    /\ adviceOp # "none"
    /\ adviceOp' = "none"
    /\ prediction_data' = NoData
    /\ apiFault' = "none"
    /\ adviceStatus' = "returned"
    /\ advice' = Message("none")
    /\ st_secrets' = "no key"
    /\ namespace' = NoData

(***************************************************************************)
(* The dashboard (app/app.py): load_model, predict_for_hour,               *)
(* generate_solar_curve_data, get_appliance_status and the part of main    *)
(* that computes the metrics.  One process serves the page; each render    *)
(* runs main from the top.  The model file is written by the training      *)
(* program (save_model).                                                   *)
(***************************************************************************)
\* the most renders of the page in one behaviour
MaxRenders == 2

\* the models the training program may have saved: each one is a
\* function from features to a predicted efficiency
ArtifactModels == 1 .. 4

\* model.predict(features)[0] for model mdl: (1) the function the data
\* was generated from, without noise; (2) 80 from 9 to 15 o'clock and 0
\* otherwise; (3) 35 at every hour; (4) the first one, 5 too low everywhere
\* (below 0 at night)
ModelPredicts(mdl, ft) ==
    IF mdl = 1
    THEN SolarEfficiency(ft.hour_of_day, ft.day_of_year, ft.temperature,
                         ft.cloud_cover, ft.humidity, 0)
    ELSE IF mdl = 2
    THEN (IF 9 <= ft.hour_of_day /\ ft.hour_of_day <= 15 THEN 80000 ELSE 0)
    ELSE IF mdl = 3 THEN 35000
    ELSE SolarEfficiency(ft.hour_of_day, ft.day_of_year, ft.temperature,
                         ft.cloud_cover, ft.humidity, 0) - 5000

\* the one-row DataFrame predict_for_hour builds
Features(t, c, hm, h, doy) ==
    [temperature |-> t, cloud_cover |-> c, humidity |-> hm,
     hour_of_day |-> h, day_of_year |-> doy]

\* the energy returned without the floor at 0
PredictForHourNoFloor(mdl, t, c, hm, h, doy, cap) ==
    (ModelPredicts(mdl, Features(t, c, hm, h, doy)) * cap) \div (100 * Scale)

\* predict_for_hour: max(0, (efficiency / 100) * panel_capacity)
PredictForHour(mdl, t, c, hm, h, doy, cap) ==
    Max(0, (ModelPredicts(mdl, Features(t, c, hm, h, doy)) * cap)
               \div (100 * Scale))

\* hours = list(range(24))
CurveHours == [i \in 1 .. 24 |-> i - 1]

\* the loop leaving out the last hour
CurveLoopStopsEarly(i) == i < Len(CurveHours) - 1

\* for hour in hours: whether an i-th hour (from 0) is left
CurveLoopContinues(i) == i < Len(CurveHours)

\* f"{h:02d}:00": the two digits of the label
HourLabel(h) == <<h \div 10, h % 10>>

\* the DataFrame returned: Hour, Hour_Label and Energy_Output columns
CurveFrame(outs) ==
    [i \in 1 .. Len(outs) |->
        [Hour |-> CurveHours[i], Hour_Label |-> HourLabel(CurveHours[i]),
         Energy_Output |-> outs[i]]]

\* solar_curve_data['Energy_Output'].sum()
RECURSIVE Sum(_)
Sum(outs) == IF outs = <<>> THEN 0 ELSE Head(outs) + Sum(Tail(outs))

\* max_possible_output = panel_capacity * 8
MaxPossibleOutput(cap) == cap * 8

\* (total_daily_output / max_possible_output) * 100 if
\* max_possible_output > 0 else 0 (the capacity a multiple of 0.5, so
\* max_possible_output is a whole number)
EfficiencyPercent(total, cap) ==
    IF MaxPossibleOutput(cap) > 0
    THEN (total * 100) \div (MaxPossibleOutput(cap) \div Scale)
    ELSE 0

\* total_daily_output * electricity_rate (the rate a multiple of 0.5)
EstimatedSavings(total, rate) == (total * (rate \div 500)) \div 2

\* lines 714-725: the status shown
StatusText(e) ==
    IF e >= 70000 THEN "HIGH" ELSE IF e >= 40000 THEN "MODERATE" ELSE "LOW"

\* get_appliance_status(efficiency): the first of the three values
ApplianceStatus(e) ==
    IF e > 70000 THEN "RUN NOW" ELSE IF e >= 30000 THEN "WAIT" ELSE "AVOID"

\* the function body run on every call
LoadRunsAlways(cache) == TRUE

\* @st.cache_resource: the body of load_model runs only when no value is
\* cached (0: none)
LoadRuns(cache) == cache = 0

\* the content of the file load_model reads (Partial: a broken file; -1:
\* no file)
ArtifactContent(fs) ==
    IF \E a \in fs : a.dir = DefaultModelDir
                     /\ a.file = "solar_prediction_model.pkl"
    THEN (CHOOSE a \in fs : a.dir = DefaultModelDir
                            /\ a.file = "solar_prediction_model.pkl").model
    ELSE -1

\* the active weather: live values, and slider positions of experiment mode
ActiveWeather ==
    { [temperature |-> 28000, cloud_cover |-> 25000, humidity |-> 70000],
      [temperature |-> 25000, cloud_cover |-> 0, humidity |-> 0],
      [temperature |-> 45000, cloud_cover |-> 100000, humidity |-> 100000] }

\* tomorrow's day of the year
TomorrowDays == {172, 355}

\* the panel capacity slider: 1.0 to 10.0, 5.0 at first
PanelCapacities == {1000, 5000, 10000}

\* the electricity rate input: 1.0 to 20.0, 7.0 at first
ElectricityRates == {1000, 7000, 20000}

VARIABLES
    dpc,            \* the render: "idle", "curve" (inside
                    \* generate_solar_curve_data), "rendered", "stopped"
                    \* (st.stop() or an exception in load_model)
    loaded,         \* the model st.cache_resource holds (0: none)
    loads,          \* the times the body of load_model has run to the end
    renders,        \* the renders begun
    active,         \* active_temp, active_cloud, active_humidity
    tomorrow,       \* day_of_year
    panel_capacity, \* the slider's value
    hourIndex,      \* generate_solar_curve_data: the loop's position
    outputs,        \* generate_solar_curve_data: the list `outputs`
    calls,          \* the features model.predict was called with, in order
    solar_curve_data,   \* the DataFrame returned
    total_daily_output,
    efficiency_percent,
    estimated_savings,
    status_text,    \* the status shown in the metrics row
    appliance       \* what get_appliance_status(efficiency_percent) gave

dashVars == <<dpc, loaded, loads, renders, active, tomorrow, panel_capacity,
              hourIndex, outputs, calls, solar_curve_data,
              total_daily_output, efficiency_percent, estimated_savings,
              status_text, appliance>>

\* the results of a render, before they are computed
resultVars == <<solar_curve_data, total_daily_output, efficiency_percent,
                estimated_savings, status_text, appliance>>

NoWeatherChosen == [temperature |-> 0, cloud_cover |-> 0, humidity |-> 0]

DashInit ==
    /\ dpc = "idle"
    /\ loaded = 0
    /\ loads = 0
    /\ renders = 0
    /\ active = NoWeatherChosen
    /\ tomorrow = 0
    /\ panel_capacity = 0
    /\ hourIndex = 0
    /\ outputs = <<>>
    /\ calls = <<>>
    /\ solar_curve_data = <<>>
    /\ total_daily_output = 0
    /\ efficiency_percent = 0
    /\ estimated_savings = 0
    /\ status_text = ""
    /\ appliance = ""

\* a render begins: main runs down to the call of
\* generate_solar_curve_data.  load_model() returns the cached model or
\* reads the file; without a file it stops the render, and a broken file
\* makes joblib.load raise.  The weather w is active, tomorrow is day doy,
\* the capacity slider is at cap.
RenderBegin(w, doy, cap) ==
    /\ dpc \in {"idle", "rendered", "stopped"}
    /\ renders < MaxRenders
    /\ renders' = renders + 1
    /\ hourIndex' = 0
    /\ outputs' = <<>>
    /\ calls' = <<>>
    /\ solar_curve_data' = <<>>
    /\ total_daily_output' = 0
    /\ efficiency_percent' = 0
    /\ estimated_savings' = 0
    /\ status_text' = ""
    /\ appliance' = ""
    /\ IF LoadRuns(loaded) /\ ArtifactContent(files) <= Partial
       THEN /\ dpc' = "stopped"
            /\ active' = NoWeatherChosen
            /\ tomorrow' = 0
            /\ panel_capacity' = 0
            /\ UNCHANGED <<loaded, loads>>
       ELSE /\ dpc' = "curve"
            /\ active' = w
            /\ tomorrow' = doy
            /\ panel_capacity' = cap
            /\ loaded' = IF LoadRuns(loaded) THEN ArtifactContent(files)
                         ELSE loaded
            /\ loads' = IF LoadRuns(loaded) THEN loads + 1 ELSE loads

\* one turn of the loop of generate_solar_curve_data: predict_for_hour
\* for the next hour, its result appended
CurveStep ==
    /\ dpc = "curve"
    /\ CurveLoopContinues(hourIndex)
    /\ calls' = Append(calls,
                       Features(active.temperature, active.cloud_cover,
                                active.humidity, CurveHours[hourIndex + 1],
                                tomorrow))
    /\ outputs' = Append(outputs,
                         PredictForHour(loaded, active.temperature,
                                        active.cloud_cover, active.humidity,
                                        CurveHours[hourIndex + 1], tomorrow,
                                        panel_capacity))
    /\ hourIndex' = hourIndex + 1
    /\ UNCHANGED <<dpc, loaded, loads, renders, active, tomorrow,
                   panel_capacity, resultVars>>

\* the loop is over: the DataFrame is returned and main computes the
\* totals, the status and the appliance status, at electricity rate `rate`
RenderFinish(rate) ==
    /\ dpc = "curve"
    /\ ~CurveLoopContinues(hourIndex)
    /\ dpc' = "rendered"
    /\ solar_curve_data' = CurveFrame(outputs)
    /\ total_daily_output' = Sum(outputs)
    /\ efficiency_percent' = EfficiencyPercent(total_daily_output',
                                               panel_capacity)
    /\ estimated_savings' = EstimatedSavings(total_daily_output', rate)
    /\ status_text' = StatusText(efficiency_percent')
    /\ appliance' = ApplianceStatus(efficiency_percent')
    /\ UNCHANGED <<loaded, loads, renders, active, tomorrow, panel_capacity,
                   hourIndex, outputs, calls>>

\* the training program saves model mdl to the default directory
ArtifactSaved(mdl, ts, f) ==
    /\ SaveModel(mdl, DefaultModelDir, ts, f)
    /\ UNCHANGED <<tpc, inMain, n_samples, X_train, X_test, fits, trainings,
                   model, metrics, filesAtStart, firstSplit>>

(***************************************************************************)
(* Specifications.                                                         *)
(***************************************************************************)
\* the variables of the specifications after the first three
otherVars == <<weatherVars, trainVars, adviceVars, dashVars>>

\* the variables each of these leaves alone
notWeatherVars == <<genVars, dbVars, seedVars, trainVars, adviceVars,
                    dashVars>>
notTrainVars == <<genVars, dbVars, seedVars, weatherVars, adviceVars,
                  dashVars>>
notAdviceVars == <<genVars, dbVars, seedVars, weatherVars, trainVars,
                   dashVars>>
notDashVars == <<genVars, dbVars, seedVars, weatherVars, adviceVars>>

vars == <<genVars, dbVars, seedVars, otherVars>>

Init == GenInit /\ DbInit /\ SeedInit /\ WeatherInit /\ TrainInit
        /\ AdviceInit /\ DashInit

\* generate_synthetic_dataset, its draws free ------------------------------
Call ==
    /\ \E d \in DaysArgs, now \in NowDates : GenCall(d, now)
    /\ UNCHANGED <<dbVars, seedVars, otherVars>>

LoopBody ==
    /\ \E u1 \in TempNoise, u2 \in CloudBase, u3 \in HumidityNoise,
          u4 \in EfficiencyNoise : GenRow(u1, u2, u3, u4)
    /\ UNCHANGED <<dbVars, seedVars, otherVars>>

Return ==
    /\ GenReturn
    /\ UNCHANGED <<dbVars, seedVars, otherVars>>

Next == Call \/ LoopBody \/ Return

Spec == Init /\ [][Next]_vars

\* the record store -------------------------------------------------------
Construct ==
    /\ \E f \in InitFailures : DbConstruct(f)
    /\ UNCHANGED <<genVars, seedVars, otherVars>>

Insert ==
    /\ \E wd \in InsertArgs, f \in InsertFailures : InsertWeatherData(wd, f)
    /\ UNCHANGED <<genVars, seedVars, otherVars>>

Latest ==
    /\ \E n \in -1 .. MaxLimit, f \in ReadFailures : GetLatestRecords(n, f)
    /\ UNCHANGED <<genVars, seedVars, otherVars>>

Etl ==
    /\ \E city \in Cities, u \in EtlDraws, fi \in InitFailures,
          f \in InsertFailures : GenerateAndStoreWeather(city, u, fi, f)
    /\ UNCHANGED <<genVars, seedVars, otherVars>>

TimePasses ==
    /\ Tick
    /\ UNCHANGED <<genVars, seedVars, otherVars>>

Load ==
    /\ \E f \in LoadFailures : LoadLatestWeatherData(f)
    /\ UNCHANGED <<genVars, seedVars, otherVars>>

NextDB == Construct \/ Insert \/ Latest \/ Etl \/ TimePasses \/ Load

SpecDB == Init /\ [][NextDB]_vars

\* generate_synthetic_dataset(days=1) on a seeded generator ----------------
\* random.seed(s)
RandomSeed ==
    /\ pc = "idle"
    /\ seeded = -1
    /\ \E s \in 0 .. MaxSeed : rng' = SeedState(s) /\ seeded' = s
    /\ UNCHANGED <<today, out, runs, genVars, dbVars, otherVars>>

\* the call of generate_synthetic_dataset(days=1) that follows
SeededCall ==
    /\ seeded >= 0
    /\ Len(runs) < MaxRuns
    /\ GenCall(1, today)
    /\ out' = <<>>
    /\ UNCHANGED <<rng, seeded, today, runs, dbVars, otherVars>>

\* the loop body, its four draws taken from the generator in order
SeededLoopBody ==
    /\ seeded >= 0
    /\ LET x1 == RandomNext(rng)
           x2 == RandomNext(x1)
           x3 == RandomNext(x2)
           x4 == RandomNext(x3)
       IN  /\ GenRow(Uniform(-2000, 2000, x1), Uniform(10000, 70000, x2),
                     Uniform(-10000, 10000, x3), Uniform(-2000, 2000, x4))
           /\ rng' = x4
    /\ out' = Append(out, row')
    /\ UNCHANGED <<seeded, today, runs, dbVars, otherVars>>

\* the call returns; the caller keeps the rows and goes on
SeededReturn ==
    /\ seeded >= 0
    /\ GenReturn
    /\ runs' = Append(runs, [seed |-> seeded, out |-> out])
    /\ seeded' = -1
    /\ UNCHANGED <<rng, today, out, dbVars, otherVars>>

CallerContinues ==
    /\ pc = "done"
    /\ pc' = "idle"
    /\ UNCHANGED <<days, start_date, day, hour, temperature, cloud_cover,
                   humidity, solar_efficiency, data, row, df>>
    /\ UNCHANGED <<seedVars, dbVars, otherVars>>

\* midnight passes
DayPasses ==
    /\ today \in NowDates
    /\ today' = today + 1
    /\ UNCHANGED <<rng, seeded, out, runs, genVars, dbVars,
                   otherVars>>

NextSeed ==
    \/ RandomSeed \/ SeededCall \/ SeededLoopBody \/ SeededReturn
    \/ CallerContinues \/ DayPasses

SpecSeed == Init /\ [][NextSeed]_vars

\* the weather generator ---------------------------------------------------
NewGenerator ==
    /\ \E city \in GeneratorCities : GeneratorConstruct(city)
    /\ UNCHANGED notWeatherVars

GenerateWeather ==
    /\ \E ts \in WeatherTimes, u \in WeatherDraws : GeneratorGenerate(ts, u)
    /\ UNCHANGED notWeatherVars

NextWeather == NewGenerator \/ GenerateWeather

SpecWeather == Init /\ [][NextWeather]_vars

\* the training pipeline ---------------------------------------------------
MainStarts ==
    /\ MainGenerate
    /\ UNCHANGED notTrainVars

MainTrains ==
    /\ inMain
    /\ TrainSplit(n_samples)
    /\ UNCHANGED notTrainVars

CallerTrains ==
    /\ ~inMain
    /\ \E n \in RowCounts : TrainSplit(n)
    /\ UNCHANGED notTrainVars

Fit ==
    /\ \E f \in FitFailures : TrainFit(f)
    /\ UNCHANGED notTrainVars

TrainReturns ==
    /\ \E m \in Metrics : TrainReturn(m)
    /\ UNCHANGED notTrainVars

MainSaves ==
    /\ \E ts \in Times, f \in SaveFailures : MainSaveModel(ts, f)
    /\ UNCHANGED notTrainVars

MainEnds ==
    /\ MainReturn
    /\ UNCHANGED notTrainVars

CallerSaves ==
    /\ \E d \in ModelDirs, ts \in Times, f \in SaveFailures :
          CallerSaveModel(d, ts, f)
    /\ UNCHANGED notTrainVars

ProgramRestarts ==
    /\ Restart
    /\ UNCHANGED notTrainVars

NextTrain ==
    \/ MainStarts \/ MainTrains \/ CallerTrains \/ Fit \/ TrainReturns
    \/ MainSaves \/ MainEnds \/ CallerSaves \/ ProgramRestarts

SpecTrain == Init /\ [][NextTrain]_vars

\* main goes on to its next statement
SpecTrainLive == SpecTrain /\ WF_vars(MainSaves)

\* the advice ---------------------------------------------------------------
Advise ==
    /\ \E pd \in PredictionData, f \in ApiFailures, resp \in ResponseTexts :
          AdviceCall(pd, f, resp)
    /\ UNCHANGED notAdviceVars

Render ==
    /\ \E t \in ActiveTemps, c \in ActiveClouds, hm \in ActiveHumidities,
          e \in EfficiencyPercents, secrets \in Secrets,
          f \in ApiFailures, resp \in ResponseTexts :
          DashboardRender(MainNamespace(t, c, hm, e), secrets, f, resp)
    /\ UNCHANGED notAdviceVars

Shown ==
    /\ AdviceShown
    /\ UNCHANGED notAdviceVars

NextAdvice == Advise \/ Render \/ Shown

SpecAdvice == Init /\ [][NextAdvice]_vars

\* the dashboard -------------------------------------------------------------
BeginRender ==
    /\ \E w \in ActiveWeather, doy \in TomorrowDays, cap \in PanelCapacities :
          RenderBegin(w, doy, cap)
    /\ UNCHANGED <<notDashVars, trainVars>>

PredictHour ==
    /\ CurveStep
    /\ UNCHANGED <<notDashVars, trainVars>>

FinishRender ==
    /\ \E rate \in ElectricityRates : RenderFinish(rate)
    /\ UNCHANGED <<notDashVars, trainVars>>

TrainingSaves ==
    /\ \E mdl \in ArtifactModels, ts \in Times, f \in SaveFailures :
          ArtifactSaved(mdl, ts, f)
    /\ UNCHANGED <<notDashVars, dashVars>>

NextDash == BeginRender \/ PredictHour \/ FinishRender \/ TrainingSaves

SpecDash == Init /\ [][NextDash]_vars

(***************************************************************************)
(* The claims.                                                             *)
(***************************************************************************)
\* whether `row` is a row the loop body has appended
RowProduced == row.hour_of_day >= 0

\* whether hour h is outside 6..18
Night(h) == h < 6 \/ h > 18

\* C1: every row with hour_of_day < 6 or hour_of_day > 18 has
\* solar_output_efficiency exactly 0.
C1_NightEfficiencyZero ==
    (RowProduced /\ Night(row.hour_of_day))
        => row.solar_output_efficiency = 0

\* C2: every row produced has cloud_cover, humidity and
\* solar_output_efficiency within 0..100.
C2_RowBounds ==
    RowProduced =>
        /\ 0 <= row.cloud_cover /\ row.cloud_cover <= 100000
        /\ 0 <= row.humidity /\ row.humidity <= 100000
        /\ 0 <= row.solar_output_efficiency
        /\ row.solar_output_efficiency <= 100000

\* a night row whose noise draw was negative: only the clamp keeps it at 0
C2_Witness ==
    /\ RowProduced
    /\ Night(row.hour_of_day)
    /\ row.solar_output_efficiency = 0
    /\ row.cloud_cover > 0
    /\ days = MaxDays

\* C3: for days >= 0 the dataset returned has days*24 rows: for each day
\* index d, in order, the hours 0..23 each once and ascending, the 24 rows
\* of a day sharing one day_of_year, and each day's day_of_year following
\* that of the day before in the calendar.
C3_RowsPerDay ==
    (pc = "done" /\ days >= 0) =>
        /\ Len(df) = days * 24
        /\ \A d \in 0 .. days - 1 : \A h \in 0 .. 23 :
              /\ df[d * 24 + h + 1].hour_of_day = h
              /\ df[d * 24 + h + 1].day_of_year = df[d * 24 + 1].day_of_year
        /\ \A d \in 0 .. days - 1 : df[d * 24 + 1].day_of_year \in 1 .. 366
        /\ \A d \in 0 .. days - 2 :
              \/ df[(d + 1) * 24 + 1].day_of_year
                     = df[d * 24 + 1].day_of_year + 1
              \/ /\ df[d * 24 + 1].day_of_year \in {365, 366}
                 /\ df[(d + 1) * 24 + 1].day_of_year = 1

\* a dataset of two days or more has been returned
C3_Witness == pc = "done" /\ days >= 2 /\ Len(df) = days * 24

\* C4: a call with days < 0 is rejected: it never returns a dataset.
C4_NegativeDaysRejected == pc = "done" => days >= 0

\* C5: generate_synthetic_dataset(days=0) runs no loop body and returns an
\* empty dataset.
C5_ZeroDaysEmpty ==
    (pc # "idle" /\ days = 0) =>
        /\ pc \in {"exit", "done"}
        /\ data = <<>>
        /\ pc = "done" => df = <<>>

\* the call with days = 0 has returned
C5_Witness == pc = "done" /\ days = 0 /\ df = <<>>

\* the cloud covers the efficiency is compared at
CloudGrid == {0, 25000, 50000, 100000}

\* C6: with hour, day_of_year, temperature, humidity and the noise draw
\* fixed, a larger cloud_cover never gives a larger solar efficiency,
\* before rounding and after.
C6_CloudMonotone ==
    RowProduced =>
        \A c1 \in CloudGrid \cup {cloud_cover} :
        \A c2 \in CloudGrid \cup {cloud_cover} :
        \A u \in EfficiencyNoise :
           c1 <= c2 =>
              /\ SolarEfficiency(row.hour_of_day, row.day_of_year,
                                 temperature, c2, humidity, u)
                 <= SolarEfficiency(row.hour_of_day, row.day_of_year,
                                    temperature, c1, humidity, u)
              /\ Round2(SolarEfficiency(row.hour_of_day, row.day_of_year,
                                        temperature, c2, humidity, u))
                 <= Round2(SolarEfficiency(row.hour_of_day, row.day_of_year,
                                           temperature, c1, humidity, u))

\* a row of a daylight hour whose efficiency is lower under full cloud
\* cover than the one it got
C6_Witness ==
    /\ RowProduced
    /\ row.hour_of_day = 12
    /\ cloud_cover < 100000
    /\ \E u \in EfficiencyNoise :
          /\ SolarEfficiency(12, row.day_of_year, temperature, cloud_cover,
                             humidity, u) = solar_efficiency
          /\ SolarEfficiency(12, row.day_of_year, temperature, 100000,
                             humidity, u) < solar_efficiency

\* C7: two calls of generate_synthetic_dataset(days=1), each made right
\* after random.seed with the same seed, return the same rows.
C7_SameSeedSameRows ==
    \A i \in 1 .. Len(runs) : \A j \in 1 .. Len(runs) :
        runs[i].seed = runs[j].seed => runs[i].out = runs[j].out

\* whether `rows` is `before` with one row added for the dictionary wd
Committed(before, rows, wd) ==
    /\ Len(rows) = Len(before) + 1
    /\ SubSeq(rows, 1, Len(before)) = before
    /\ RequiredFields \subseteq DOMAIN wd
    /\ \A fld \in RequiredFields : rows[Len(rows)][fld] = wd[fld]

\* C8: insert_weather_data never raises; for an argument with a missing
\* field and for a storage failure it returns False; it returns True only
\* when the row is committed; a call returning False leaves the rows as
\* they were.
C8_InsertReportsFailure ==
    opName = "insert" =>
        /\ opStatus = "returned"
        /\ ~(RequiredFields \subseteq DOMAIN opArg) => ~opOk
        /\ opFault # "none" => ~opOk
        /\ opOk => Committed(prior, store, opArg)
        /\ ~opOk => store = prior

\* a complete dictionary whose commit failed, on a table that holds rows
C8_Witness ==
    /\ opName = "insert"
    /\ opFault = "commit"
    /\ RequiredFields \subseteq DOMAIN opArg
    /\ ~opOk
    /\ Len(store) >= 1

\* C9: the record store is append-only: no call removes or changes a row
\* that is in the table.
C9_AppendOnly ==
    [][/\ Len(store) <= Len(store')
       /\ SubSeq(store', 1, Len(store)) = store]_vars

\* a WeatherDatabase has been constructed on a path that holds rows
C9_Witness ==
    /\ opName = "init"
    /\ opStatus = "returned"
    /\ Len(store) >= 2
    /\ store = prior

\* C10: get_latest_records(limit=n) with n >= 0 on a table of c rows
\* returns min(n, c) rows, the last inserted ones, last inserted first, and
\* leaves the table as it was.
C10_LatestRecords ==
    (opName = "latest" /\ opStatus = "returned" /\ opLimit >= 0) =>
        /\ Len(opRows) = Min(opLimit, Len(store))
        /\ \A i \in 1 .. Len(opRows) : opRows[i] = store[Len(store) - i + 1]
        /\ store = prior

\* the two last of three rows are returned, the last of them carrying an
\* earlier timestamp than the one before
C10_Witness ==
    /\ opName = "latest"
    /\ opStatus = "returned"
    /\ opLimit = 2
    /\ Len(store) = 3
    /\ Len(opRows) = 2
    /\ opRows[1].timestamp < opRows[2].timestamp

\* C11: a call of generate_and_store_weather that returns a dictionary has
\* appended exactly one row to the table, with the dictionary's
\* temperature, cloud_cover, humidity, city and timestamp; on a table
\* without rows the call leaves exactly one row.
C11_EtlStoresReturned ==
    (opName = "etl" /\ opStatus = "returned" /\ opOk) =>
        /\ Len(opRows) = 1
        /\ Committed(prior, store, opRows[1])
        /\ prior = <<>> => Len(store) = 1

\* a call on a fresh database has returned its dictionary
C11_Witness ==
    /\ opName = "etl"
    /\ opOk
    /\ prior = <<>>
    /\ Len(store) = 1
    /\ store[1].cloud_cover # store[1].humidity

\* C12: generate_and_store_weather never raises: it returns the dictionary
\* when the row was stored, and otherwise, a failure to create or open the
\* database included, it returns None and has added no row.
C12_EtlNeverRaises ==
    opName = "etl" =>
        /\ opStatus = "returned"
        /\ opOk \/ store = prior

\* C19: in every row generated, humidity before rounding is within 10 of
\* 40 + 0.4 * cloud_cover.
C19_HumidityTracksCloud ==
    RowProduced =>
        Abs(humidity - (40000 + MulS(cloud_cover, 400))) <= 10000

\* a row whose humidity draw was at an end of its range, under a cloud
\* cover above 60
C19_Witness ==
    /\ RowProduced
    /\ cloud_cover > 60000
    /\ Abs(humidity - (40000 + MulS(cloud_cover, 400))) = 10000

\* C13: for every hour of the clock and all draws, the dictionary
\* generate_weather_data returns has temperature, cloud_cover, humidity,
\* city and timestamp, with 10 <= temperature <= 45, cloud_cover and
\* humidity within 0..100, and the city the generator was constructed with.
C13_WeatherRecord ==
    weather # NoWeather =>
        /\ RequiredFields \subseteq DOMAIN weather
        /\ 10000 <= weather.temperature /\ weather.temperature <= 45000
        /\ 0 <= weather.cloud_cover /\ weather.cloud_cover <= 100000
        /\ 0 <= weather.humidity /\ weather.humidity <= 100000
        /\ weather.city = generator

\* a dictionary generated at noon by a generator of TestCity, the
\* temperature draw at its highest
C13_Witness ==
    /\ weather # NoWeather
    /\ generator = "TestCity"
    /\ HourAt(weather.timestamp) = 12
    /\ weather.temperature = 35000

\* C14: in main, whenever train_model has returned a model, save_model is
\* subsequently called with that model, whatever RMSE, MAE and R2 are.
C14_TrainedModelIsSaved ==
    \A k \in 1 .. MaxTrainings :
        (inMain /\ tpc = "trained" /\ model = k)
            ~> (saveArg = k /\ saveDir = DefaultModelDir)

\* main has passed a model with a negative R2 to save_model
C14_Witness ==
    /\ inMain
    /\ tpc = "saved"
    /\ metrics.r2 < 0
    /\ saveArg = model
    /\ model > 0

\* the model files in directory d
ArtifactsIn(d) == {a \in files : a.dir = d}

C16_FitFailurePropagates ==
    /\ fits <= 1
    /\ (tpc = "raised" /\ inMain /\ model = 0) =>
          /\ files = filesAtStart
          /\ saveArg < trainings

\* fit has failed in main while a model saved earlier is on disk
C16_Witness ==
    /\ tpc = "raised"
    /\ inMain
    /\ model = 0
    /\ fits = 1
    /\ \E a \in files : a.dir = DefaultModelDir /\ a.model = 1

\* the rows of a sequence of rows
RowSet(rows) == {rows[i] : i \in 1 .. Len(rows)}

C17_FallbackOnAnyFailure ==
    adviceOp = "advice" =>
        /\ adviceStatus = "returned"
        /\ apiFault # "none" =>
              advice = FallbackAdvice(Get(prediction_data,
                                          "solar_efficiency", 0))

\* the advice the rule table chooses for cloud cover c, temperature t and
\* humidity hm
TableAdvice(t, c, hm) ==
    IF c > 70000 THEN MessageWith("delay", c)
    ELSE IF c > 40000 THEN MessageWith("partial clouds", c)
    ELSE IF t > 40000 THEN MessageWith("high temperature", t)
    ELSE IF hm > 80000 THEN MessageWith("high humidity", hm)
    ELSE MessageWith("excellent conditions", t)

\* C18: with no API key in st.secrets the dashboard shows the advice the
\* rule table chooses for the active cloud cover, temperature and
\* humidity, not the generic message.
C18_RuleTableWithoutKey ==
    (adviceOp = "render" /\ st_secrets = "no key") =>
        advice = TableAdvice(namespace.active_temp, namespace.active_cloud,
                             namespace.active_humidity)

\* C23: in every row generated the clamps come after the noise: humidity
\* as computed lies in [30, 95] and the solar efficiency in [0, 100], and
\* the row holds these two values rounded to 2 decimals, nothing else
\* having been done to them.
C23_ClampsAfterNoise ==
    RowProduced =>
        /\ 30000 <= humidity /\ humidity <= 95000
        /\ 0 <= solar_efficiency /\ solar_efficiency <= 100000
        /\ row.humidity = Round2(humidity)
        /\ row.solar_output_efficiency = Round2(solar_efficiency)
        /\ 30000 <= row.humidity /\ row.humidity <= 95000
        /\ 0 <= row.solar_output_efficiency
        /\ row.solar_output_efficiency <= 100000

\* a row of hour 19 whose noise was not positive: the clamp, coming last,
\* has put it at 0
C23_Witness ==
    /\ RowProduced
    /\ row.hour_of_day = 19
    /\ solar_efficiency = 0
    /\ humidity >= 30000

\* C26: a row of a night hour (hour_of_day < 6 or > 18) never has a
\* solar_output_efficiency above 2.
C26_NightAtMostNoise ==
    (RowProduced /\ Night(row.hour_of_day)) =>
        /\ solar_efficiency <= 2000
        /\ row.solar_output_efficiency <= 2000

\* a night row whose noise draw was at its highest
C26_Witness ==
    /\ RowProduced
    /\ row.hour_of_day = 3
    /\ row.solar_output_efficiency = 2000

\* C28: constructing a WeatherDatabase on a path that holds rows keeps
\* them: the table holds one row per successful insert, so after k calls
\* of generate_and_store_weather that returned a dictionary, and no other
\* insert, it holds exactly k rows.
C28_OneRowPerStoredCall ==
    /\ Len(store) = etlStored + inserted
    /\ inserted = 0 => Len(store) = etlStored
    /\ opName \in {"init", "etl"} =>
          SubSeq(store, 1, Len(prior)) = prior

\* two calls of generate_and_store_weather have stored their dictionaries
\* and nothing else was inserted
C28_Witness ==
    /\ opName = "etl"
    /\ opOk
    /\ etlStored >= 2
    /\ inserted = 0
    /\ Len(store) = etlStored

\* C29: the ids of the rows increase strictly in insertion order and none
\* is given twice; get_latest_records and load_latest_weather_data return
\* the row inserted last first, whatever the timestamps are.
C29_LatestIsLastInserted ==
    /\ \A i \in 1 .. Len(store) : \A j \in 1 .. Len(store) :
          i < j => store[i].id < store[j].id
    /\ \A i \in 1 .. Len(store) : store[i].id <= seq
    /\ (opName = "latest" /\ opStatus = "returned" /\ opRows # <<>>) =>
          opRows[1] = store[Len(store)]
    /\ (opName = "load" /\ opFault = "none" /\ store # <<>>) =>
          opRows[1] = LoadedValues(store[Len(store)])

\* load_latest_weather_data has returned the values of the row inserted
\* last, which carries an earlier timestamp than the row before it
C29_Witness ==
    /\ opName = "load"
    /\ opFault = "none"
    /\ Len(store) >= 2
    /\ store[Len(store)].timestamp < store[Len(store) - 1].timestamp
    /\ opRows[1] = LoadedValues(store[Len(store)])
    /\ opRows[1] # LoadedValues(store[Len(store) - 1])

\* C30: load_latest_weather_data never raises and returns a dictionary of
\* temperature, cloud_cover and humidity: the values of the row inserted
\* last when the file is there, the read succeeds and the table has rows,
\* and 28.0 / 30.0 / 65.0 otherwise; the table is left as it was.
C30_LoadLatestDefaults ==
    opName = "load" =>
        /\ opStatus = "returned"
        /\ Len(opRows) = 1
        /\ DOMAIN opRows[1] = {"temperature", "cloud_cover", "humidity"}
        /\ opRows[1] = IF dbFile = "table" /\ opFault = "none"
                          /\ store # <<>>
                       THEN LoadedValues(store[Len(store)])
                       ELSE Defaults
        /\ store = prior

\* the read failed inside the query on a table that holds rows, and the
\* defaults were returned
C30_Witness ==
    /\ opName = "load"
    /\ opFault = "query"
    /\ store # <<>>
    /\ opRows = <<Defaults>>

\* C21: generate_solar_curve_data calls the model's predict once for each
\* hour 0..23, in order, with the same temperature, cloud cover, humidity
\* and day of year every time, and returns 24 rows whose Hour runs from 0
\* to 23 and whose Energy_Output is predict_for_hour's result for that hour.
C21_OnePredictPerHour ==
    /\ Len(calls) = hourIndex
    /\ Len(outputs) = hourIndex
    /\ \A i \in 1 .. Len(calls) :
          /\ calls[i] = Features(active.temperature, active.cloud_cover,
                                 active.humidity, i - 1, tomorrow)
          /\ outputs[i] = PredictForHour(loaded, active.temperature,
                                         active.cloud_cover, active.humidity,
                                         i - 1, tomorrow, panel_capacity)
    /\ dpc = "rendered" =>
          /\ Len(calls) = 24
          /\ Len(solar_curve_data) = 24
          /\ \A i \in 1 .. 24 :
                /\ solar_curve_data[i].Hour = i - 1
                /\ solar_curve_data[i].Energy_Output = outputs[i]

C21_Witness ==
    /\ dpc = "rendered"
    /\ Len(solar_curve_data) = 24
    /\ solar_curve_data[13].Hour = 12
    /\ solar_curve_data[13].Energy_Output > solar_curve_data[8].Energy_Output
    /\ solar_curve_data[8].Energy_Output > 0

\* C22: no step of the dashboard changes the model file or the model
\* already loaded, and the body of load_model runs at most once in a
\* process however many times the page is rendered.
C22_ArtifactAndModelReadOnly ==
    [][(dashVars' # dashVars) =>
          /\ files' = files
          /\ (loaded # 0 => loaded' = loaded)
          /\ loads' <= 1]_vars

C22_Witness ==
    /\ renders = MaxRenders
    /\ dpc = "rendered"
    /\ loads = 1
    /\ loaded # 0
    /\ ArtifactContent(files) # loaded

\* C24: the efficiency_percent handed to get_appliance_status lies within
\* 0..100 whatever the model predicts and whatever the panel capacity.
C24_EfficiencyWithin0To100 ==
    dpc = "rendered" =>
        (0 <= efficiency_percent /\ efficiency_percent <= 100 * Scale)

\* C25: whenever the status shown is HIGH, get_appliance_status gives
\* RUN NOW.
C25_HighMeansRunNow ==
    (dpc = "rendered" /\ status_text = "HIGH") => appliance = "RUN NOW"

\* C27: predict_for_hour never returns a negative energy, also when the
\* model predicts a negative efficiency; so the total daily output, the
\* efficiency percentage and the estimated savings are never negative.
C27_NeverNegative ==
    /\ \A i \in 1 .. Len(outputs) : outputs[i] >= 0
    /\ \A i \in 1 .. Len(solar_curve_data) :
          solar_curve_data[i].Energy_Output >= 0
    /\ total_daily_output >= 0
    /\ efficiency_percent >= 0
    /\ estimated_savings >= 0

C27_Witness ==
    /\ dpc = "rendered"
    /\ total_daily_output > 0
    /\ \E i \in 1 .. Len(calls) :
          ModelPredicts(loaded, calls[i]) < 0 /\ outputs[i] = 0

====
